---- MODULE Spec2Model ----
(***************************************************************************)
(* GalleryGopher (src/main.go, lines 1-963: the Firestore-backed bot).     *)
(* Every inbound interaction is handled by its own goroutine; a handler    *)
(* suspends only at a store call (Get / Set / Delete / list), at the       *)
(* command registration and at InteractionRespond.  The model has one      *)
(* action per such call; everything a handler computes between two calls   *)
(* is folded into the action of the call that ends it.                     *)
(***************************************************************************)
EXTENDS Integers, Sequences, FiniteSets, TLC

\* ---------------------------------------------------------------- bounds
\* interactions handled in one behaviour
MaxEvents == 2
\* images the store holds at startup, all galleries together
MaxInitLen == 2
\* interactions handled in one behaviour of the read-only sub-system
MaxReads == 1

\* ------------------------------------------------------------ data model
\* Strings that the code takes apart (strings.Trim, strconv.Atoi) are
\* sequences of characters, a character being a one-character string; the
\* backtick, which the lexer of TLA+ refuses inside a string, is "BT".
BT == "BT"

\* gallery_name option values (free text for create)
Names == { <<"a">>, <<BT, "a">> }

\* image_link option values
Urls == { "u1", "u2" }

\* i.Member.User.ID
Users == { "m1" }

\* fmt.Sprint(time.Now().Unix())
Times == { "t1" }

\* one element of Gallery.Images: map[string]string with three keys
Images == [imageUrl : Urls, timestamp : Times, authorId : Users]

\* image_number option values: in range, below and above
Indexes == -1 .. (MaxInitLen + 1)

\* a document that does not exist (Get answers codes.NotFound)
NoDoc == [exists |-> FALSE, images |-> <<>>]

\* a gallery document: Gallery{Images: images}
Doc(images) == [exists |-> TRUE, images |-> images]

\* the zero map[string]string
NoImage == [imageUrl |-> "", timestamp |-> "", authorId |-> ""]

EventIds == 1 .. MaxEvents

\* Messages: the response to interaction e creates message e.  Two prompts
\* may be on display when the behaviour starts: message -2, a gallery-delete
\* prompt, and message -1, an image-delete prompt.  0 is no message.
OldGalleryPrompt == 0 - 2

OldImagePrompt == 0 - 1

MsgIds == {OldImagePrompt, OldGalleryPrompt} \cup EventIds

RECURSIVE SeqsUpTo(_, _)
SeqsUpTo(S, n) ==
    IF n = 0 THEN { <<>> }
    ELSE LET shorter == SeqsUpTo(S, n - 1)
         IN  shorter \cup { Append(s, x) : s \in { t \in shorter : Len(t) = n - 1 }, x \in S }

\* ------------------------------------------------------- pure functions
\* fmt.Sprintf("BT%sBT", galleryName), BT the backtick
Quote(name) == <<BT>> \o name \o <<BT>>

RECURSIVE TrimLeft(_, _)
TrimLeft(s, c) ==
    IF s # <<>> /\ Head(s) = c THEN TrimLeft(Tail(s), c) ELSE s

RECURSIVE TrimRight(_, _)
TrimRight(s, c) ==
    IF s # <<>> /\ s[Len(s)] = c THEN TrimRight(SubSeq(s, 1, Len(s) - 1), c) ELSE s

\* strings.Trim(s, BT)
Trim(s) == TrimRight(TrimLeft(s, BT), BT)

Digits == <<"0", "1", "2", "3", "4", "5", "6", "7", "8", "9">>

RECURSIVE FormatNat(_)
FormatNat(n) ==
    IF n < 10 THEN << Digits[n + 1] >>
    ELSE Append(FormatNat(n \div 10), Digits[(n % 10) + 1])

\* fmt.Sprint(imageNum)
FormatInt(n) == IF n < 0 THEN <<"-">> \o FormatNat(0 - n) ELSE FormatNat(n)

DigitVal(c) == CHOOSE d \in 0 .. 9 : Digits[d + 1] = c

IsDigit(c) == \E d \in 0 .. 9 : Digits[d + 1] = c

RECURSIVE ParseNat(_, _)
ParseNat(s, acc) ==
    IF s = <<>> THEN acc ELSE ParseNat(Tail(s), 10 * acc + DigitVal(Head(s)))

\* imageNum, _ := strconv.Atoi(imageNumStr): 0 when the text is no number
Atoi(s) ==
    LET body == IF s # <<>> /\ Head(s) \in {"-", "+"} THEN Tail(s) ELSE s
        ok   == body # <<>> /\ \A i \in 1 .. Len(body) : IsDigit(body[i])
    IN  IF ~ok THEN 0
        ELSE IF Head(s) = "-" THEN 0 - ParseNat(body, 0) ELSE ParseNat(body, 0)

\* A variant of AppendImage that puts the new image first.
PrependImage(images, image) == <<image>> \o images

\* append(gallery.Images, image)
AppendImage(images, image) == Append(images, image)

\* A variant of RemoveAt that drops the image after the addressed one.
RemoveAfter(images, imageNum) ==
    SubSeq(images, 1, imageNum + 1) \o SubSeq(images, imageNum + 3, Len(images))

\* append(gallery.Images[:imageNum], gallery.Images[imageNum+1:]...), imageNum 0-based
RemoveAt(images, imageNum) ==
    SubSeq(images, 1, imageNum) \o SubSeq(images, imageNum + 2, Len(images))

\* ---------------------------------------------------------------- state
VARIABLES
    store,       \* Firestore collection "galleries": name -> document
    h,           \* one handler goroutine per interaction: its locals and position
    msg,         \* the message each interaction's response created, as displayed
    commands,    \* the shared command tree: subcommand -> Choices of its gallery option
    registered   \* the choices last sent by ApplicationCommandCreate

vars == <<store, h, msg, commands, registered>>

\* subcommands whose first option carries the gallery choices
ChoiceSubs == {"random", "pick", "add_image", "remove_image", "delete"}

\* CustomID of the four buttons
ConfirmIds == {"gallery_delete_yes", "image_delete_yes"}

CancelIds == {"gallery_delete_no", "image_delete_no"}

\* discordgo.InteractionResponseData, reduced to what the handlers fill in:
\* desc (which Description text), args and num (the %s values and the image
\* number printed in it or in the footer), last (numberOfImages-1 in the
\* footer), url (Image.URL), fields (Fields[i].Value) and components (the
\* CustomIDs of the buttons).
Data(desc, args, num, last, url, fields, components) ==
    [desc |-> desc, args |-> args, num |-> num, last |-> last, url |-> url,
     fields |-> fields, components |-> components]

\* var data discordgo.InteractionResponseData
NoData == Data("", <<>>, -1, -1, "", <<>>, {})

\* an embed with a Description only
Text(desc) == Data(desc, <<>>, -1, -1, "", <<>>, {})

\* a handler that has not been started
Idle ==
    [pc |-> "idle", kind |-> "none", g |-> <<>>, num |-> 0, image |-> NoImage,
     gallery |-> <<>>, data |-> NoData, target |-> 0, field |-> <<>>,
     read |-> NoDoc, wrote |-> 0, stamp |-> 0, dirty |-> FALSE,
     err |-> FALSE, sent |-> 0, choices |-> {}, slot |-> 0]
\* field is the local galleryName of a component handler before strings.Trim
\* (Fields[0].Value of the message clicked).  choices is the local of
\* updateCommands and slot the number of assignments into the command tree
\* it has made.  read, wrote, stamp, dirty, err
\* and sent are history fields: the document the handler's Get returned, the
\* number of Set/Delete calls it completed, the rank of its Set/Delete among
\* all completed ones (0: none), whether another handler changed document g
\* while this one was running, whether one of its store calls returned an
\* error other than codes.NotFound, and the number of InteractionRespond calls
\* it made.

NoMsg == [posted |-> FALSE, data |-> NoData]

Active(e) == h[e].pc \notin {"idle", "done", "crashed"}

\* a panic in one goroutine ends the process
Running == \A d \in DOMAIN h : h[d].pc # "crashed"

\* interactions are numbered in the order they arrive; none is handled once
\* the process has ended
NextId(e) ==
    /\ Running
    /\ h[e].pc = "idle"
    /\ \A d \in DOMAIN h : d < e => h[d].pc # "idle"

ListNames == { n \in Names : store[n].exists }

Docs == {NoDoc} \cup { Doc(s) : s \in SeqsUpTo(Images, MaxInitLen) }

RECURSIVE CountImages(_, _)
CountImages(st, names) ==
    IF names = {} THEN 0
    ELSE LET n == CHOOSE x \in names : TRUE
         IN  Len(st[n].images) + CountImages(st, names \ {n})

\* the contents of the collection when the behaviour starts
Stores == { st \in [Names -> Docs] : CountImages(st, Names) <= MaxInitLen }

\* The bot has started: updateCommands() has registered the names it listed,
\* no interaction has arrived, no prompt is on display.
Init ==
    /\ store \in Stores
    /\ h = [e \in EventIds |-> Idle]
    /\ msg = [m \in MsgIds |-> NoMsg]
    /\ commands = [c \in ChoiceSubs |-> ListNames]
    /\ registered = commands

\* A variant of Mutate for a store that keeps all galleries in one document.
MutateShared(e, g, doc, pc, data) ==
    /\ store' = [n \in Names |-> doc]
    /\ h' = [d \in DOMAIN h |->
               IF d = e THEN [h[e] EXCEPT !.pc = pc, !.data = data, !.wrote = @ + 1,
                                          !.stamp = 1 + Cardinality({ x \in DOMAIN h : h[x].wrote > 0 })]
               ELSE IF Active(d) /\ h[d].g = g THEN [h[d] EXCEPT !.dirty = TRUE]
               ELSE h[d]]

\* handler e completes a Set or Delete on document g: the document changes
\* and every other running handler addressing g is marked
Mutate(e, g, doc, pc, data) ==
    /\ store' = [store EXCEPT ![g] = doc]
    /\ h' = [d \in DOMAIN h |->
               IF d = e THEN [h[e] EXCEPT !.pc = pc, !.data = data, !.wrote = @ + 1,
                                          !.stamp = 1 + Cardinality({ x \in DOMAIN h : h[x].wrote > 0 })]
               ELSE IF Active(d) /\ h[d].g = g THEN [h[d] EXCEPT !.dirty = TRUE]
               ELSE h[d]]

\* docRef.Get(ctx) on galleries/<name>
Lookup(name) == IF name \in Names THEN store[name] ELSE NoDoc

\* the handler of interaction e starts with these locals, at position pc
Begin(e, kind, g, num, image, pc) ==
    [Idle EXCEPT !.pc = pc, !.kind = kind, !.g = g, !.num = num, !.image = image]

\* "Image: %d of %d | Gallery: %s" under images[k]
ImageData(g, images, k) ==
    Data("Image", <<g>>, k, Len(images) - 1, images[k + 1].imageUrl, <<>>, {})

\* "Invalid image number" (both wordings; the second prints numberOfImages-1)
InvalidData(images) ==
    Data("InvalidImageNumber", <<>>, -1, Len(images) - 1, "", <<>>, {})

\* ------------------------------------------------- random, pick (reads)
\* A variant of RandomData whose footer counts the images from 1.
RandomDataOneBased(g, doc, k) ==
    IF ~doc.exists THEN Text("UnableToGet")
    ELSE IF Len(doc.images) > 0
         THEN LET c == IF Len(doc.images) = 1 THEN 0 ELSE k
              IN  Data("Image", <<g>>, c + 1, Len(doc.images), doc.images[c + 1].imageUrl,
                       <<>>, {})
         ELSE Text("GalleryEmpty")

\* getRandomImageFromGallery once Get has answered doc and rand.Intn chose k
RandomData(g, doc, k) ==
    IF ~doc.exists THEN Text("UnableToGet")
    ELSE IF Len(doc.images) > 0
         THEN IF Len(doc.images) = 1 THEN ImageData(g, doc.images, 0)
              ELSE ImageData(g, doc.images, k)
         ELSE Text("GalleryEmpty")

GetRandom(e) ==
    /\ NextId(e)
    /\ \E g \in Names :
         LET doc == Lookup(g)
             n   == Len(doc.images)
         IN  \E k \in (IF n > 1 THEN 0 .. (n - 1) ELSE {0}) :
               h' = [h EXCEPT ![e] =
                       [Begin(e, "random", g, 0, NoImage, "respond")
                          EXCEPT !.read = doc, !.data = RandomData(g, doc, k)]]
    /\ UNCHANGED <<store, msg, commands, registered>>

\* A variant of PickData that numbers the images from 1.
PickDataOneBased(g, imageNum, doc) ==
    IF ~doc.exists THEN Text("UnableToGet")
    ELSE IF Len(doc.images) > 0
         THEN IF imageNum < 1 \/ imageNum > Len(doc.images)
              THEN InvalidData(doc.images)
              ELSE ImageData(g, doc.images, imageNum - 1)
         ELSE Text("GalleryEmpty")

\* A variant of PickData that tests the range of the image number first, so
\* that an empty gallery is answered like a number out of range.
PickDataRangeFirst(g, imageNum, doc) ==
    IF ~doc.exists THEN Text("UnableToGet")
    ELSE IF imageNum < 0 \/ imageNum >= Len(doc.images)
         THEN InvalidData(doc.images)
         ELSE ImageData(g, doc.images, imageNum)

\* getImageFromGallery once Get has answered doc
PickData(g, imageNum, doc) ==
    IF ~doc.exists THEN Text("UnableToGet")
    ELSE IF Len(doc.images) > 0
         THEN IF imageNum < 0 \/ imageNum >= Len(doc.images)
              THEN InvalidData(doc.images)
              ELSE ImageData(g, doc.images, imageNum)
         ELSE Text("GalleryEmpty")

GetPick(e) ==
    /\ NextId(e)
    /\ \E g \in Names, k \in Indexes :
         h' = [h EXCEPT ![e] =
                 [Begin(e, "pick", g, k, NoImage, "respond")
                    EXCEPT !.read = Lookup(g), !.data = PickData(g, k, Lookup(g))]]
    /\ UNCHANGED <<store, msg, commands, registered>>

\* A variant of CreatedData that announces the number of images stored.
CreatedDataCount(g, images, image) ==
    Data("ImageCreated", <<>>, Len(images), -1, "",
         << Quote(g), <<image.authorId>>, <<image.timestamp>> >>, {})

\* ----------------------------------------------------------- add_image
\* "Image `%d` created!" with its three fields
CreatedData(g, images, image) ==
    Data("ImageCreated", <<>>, Len(images) - 1, -1, "",
         << Quote(g), <<image.authorId>>, <<image.timestamp>> >>, {})

\* A variant of GetAdd that goes on to Set whatever Get answered: on a missing
\* document it writes a gallery holding the new image.
GetAddNoCheck(e) ==
    /\ NextId(e)
    /\ \E g \in Names, image \in Images :
         h' = [h EXCEPT ![e] =
                 [Begin(e, "add_image", g, 0, image, "set")
                    EXCEPT !.read = Lookup(g),
                           !.gallery = AppendImage(Lookup(g).images, image)]]
    /\ UNCHANGED <<store, msg, commands, registered>>

\* addImageToGallery up to the return of docRef.Get: any error ends the handler
GetAdd(e) ==
    /\ NextId(e)
    /\ \E g \in Names, image \in Images :
         LET doc == Lookup(g)
             b   == Begin(e, "add_image", g, 0, image, "respond")
         IN  h' = [h EXCEPT ![e] =
                     IF ~doc.exists
                     THEN [b EXCEPT !.read = doc, !.data = Text("UnableToGet")]
                     ELSE [b EXCEPT !.read = doc, !.pc = "set",
                                    !.gallery = AppendImage(doc.images, image)]]
    /\ UNCHANGED <<store, msg, commands, registered>>

\* A variant of SetAdd that appends to the document as stored at the time of
\* the write (a transactional append) instead of writing the sequence it read.
SetAddMerge(e) ==
    /\ h[e].pc = "set" /\ h[e].kind = "add_image"
    /\ Mutate(e, h[e].g, Doc(AppendImage(store[h[e].g].images, h[e].image)), "respond",
              CreatedData(h[e].g, h[e].gallery, h[e].image))
    /\ UNCHANGED <<msg, commands, registered>>

\* docRef.Set(ctx, gallery) of addImageToGallery returns without error
SetAdd(e) ==
    /\ h[e].pc = "set" /\ h[e].kind = "add_image"
    /\ Mutate(e, h[e].g, Doc(h[e].gallery), "respond",
              CreatedData(h[e].g, h[e].gallery, h[e].image))
    /\ UNCHANGED <<msg, commands, registered>>

\* -------------------------------------------- remove_image: the prompt
\* removeImagePrompt once Get has answered doc
RemovePromptData(g, imageNum, doc) ==
    IF ~doc.exists THEN Text("GalleryDoesNotExist")
    ELSE IF Len(doc.images) > 0
         THEN IF imageNum < 0 \/ imageNum >= Len(doc.images)
              THEN InvalidData(doc.images)
              ELSE Data("ConfirmImage", <<>>, -1, -1, doc.images[imageNum + 1].imageUrl,
                        << Quote(g), FormatInt(imageNum),
                           << doc.images[imageNum + 1].authorId >>,
                           << doc.images[imageNum + 1].timestamp >> >>,
                        {"image_delete_yes", "image_delete_no"})
         ELSE Text("GalleryDoesNotExist")

GetRemovePrompt(e) ==
    /\ NextId(e)
    /\ \E g \in Names, k \in Indexes :
         h' = [h EXCEPT ![e] =
                 [Begin(e, "remove_image", g, k, NoImage, "respond")
                    EXCEPT !.read = Lookup(g),
                           !.data = RemovePromptData(g, k, Lookup(g))]]
    /\ UNCHANGED <<store, msg, commands, registered>>

\* ------------------------------------------------ delete: the prompt
\* deleteGalleryPrompt once Get has answered doc
DeletePromptData(g, doc) ==
    IF ~doc.exists THEN Text("GalleryDoesNotExist")
    ELSE Data("ConfirmGallery", <<>>, -1, -1, "", << Quote(g) >>,
              {"gallery_delete_yes", "gallery_delete_no"})

GetDeletePrompt(e) ==
    /\ NextId(e)
    /\ \E g \in Names :
         h' = [h EXCEPT ![e] =
                 [Begin(e, "delete", g, 0, NoImage, "respond")
                    EXCEPT !.read = Lookup(g), !.data = DeletePromptData(g, Lookup(g))]]
    /\ UNCHANGED <<store, msg, commands, registered>>

\* ------------------------------------------------- component activation
\* A variant of Click in which the cancel control of a gallery-delete prompt
\* goes on to docRef.Delete, as the confirm control does after its Get.
ClickCancelDeletes(e) ==
    /\ NextId(e)
    /\ \E m \in DOMAIN msg, id \in ConfirmIds \cup CancelIds :
         /\ msg[m].posted
         /\ id \in msg[m].data.components
         /\ LET fields == msg[m].data.fields
                g      == Trim(fields[1])
                num    == IF id = "image_delete_yes" THEN Atoi(fields[2]) ELSE 0
                b      == [Begin(e, id, g, num, NoImage, "get")
                             EXCEPT !.target = m, !.field = fields[1]]
            IN  h' = [h EXCEPT ![e] =
                        IF id = "gallery_delete_no" THEN [b EXCEPT !.pc = "delete"]
                        ELSE IF id = "image_delete_no"
                        THEN [b EXCEPT !.pc = "respond",
                                       !.data = Data("CancelledImage", <<fields[2], g>>, -1,
                                                     -1, "", <<>>, {})]
                        ELSE b]
    /\ UNCHANGED <<store, msg, commands, registered>>

\* A variant of Click in which componentHandlers maps the two confirm
\* identifiers to each other's handler.
ClickSwapped(e) ==
    /\ NextId(e)
    /\ \E m \in DOMAIN msg, id \in ConfirmIds \cup CancelIds :
         /\ msg[m].posted
         /\ id \in msg[m].data.components
         /\ LET fields == msg[m].data.fields
                g      == Trim(fields[1])
                kind   == IF id = "gallery_delete_yes" THEN "image_delete_yes"
                          ELSE IF id = "image_delete_yes" THEN "gallery_delete_yes"
                          ELSE id
                b      == [Begin(e, kind, g, 0, NoImage, "get")
                             EXCEPT !.target = m, !.field = fields[1]]
            IN  h' = [h EXCEPT ![e] =
                        IF id = "gallery_delete_no"
                        THEN [b EXCEPT !.pc = "respond",
                                       !.data = Data("CancelledGallery", <<g>>, -1, -1, "", <<>>, {})]
                        ELSE IF id = "image_delete_no"
                        THEN [b EXCEPT !.pc = "respond",
                                       !.data = Data("CancelledImage", <<fields[2], g>>, -1,
                                                     -1, "", <<>>, {})]
                        ELSE b]
    /\ UNCHANGED <<store, msg, commands, registered>>

\* The platform delivers a click on a button that message m displays; the
\* interaction carries the message as displayed (i.Message).  The handler
\* reads the gallery name and the image number back from the embed's fields.
Click(e) ==
    /\ NextId(e)
    /\ \E m \in DOMAIN msg, id \in ConfirmIds \cup CancelIds :
         /\ msg[m].posted
         /\ id \in msg[m].data.components
         /\ LET fields == msg[m].data.fields
                g      == Trim(fields[1])
                num    == IF id = "image_delete_yes" THEN Atoi(fields[2]) ELSE 0
                b      == [Begin(e, id, g, num, NoImage, "get")
                             EXCEPT !.target = m, !.field = fields[1]]
            IN  h' = [h EXCEPT ![e] =
                        IF id = "gallery_delete_no"
                        THEN [b EXCEPT !.pc = "respond",
                                       !.data = Data("CancelledGallery", <<g>>, -1, -1, "", <<>>, {})]
                        ELSE IF id = "image_delete_no"
                        THEN [b EXCEPT !.pc = "respond",
                                       !.data = Data("CancelledImage", <<fields[2], g>>, -1,
                                                     -1, "", <<>>, {})]
                        ELSE b]
    /\ UNCHANGED <<store, msg, commands, registered>>

\* ------------------------------------------- remove_image: the confirm
\* A variant of GetRemove without the codes.NotFound branch: the missing
\* document is reported by DataTo, as in addImageToGallery.
GetRemoveNoCheck(e) ==
    /\ h[e].pc = "get" /\ h[e].kind = "image_delete_yes"
    /\ LET doc      == Lookup(h[e].g)
           imageNum == h[e].num
           r        == [h[e] EXCEPT !.read = doc, !.pc = "respond"]
       IN  h' = [h EXCEPT ![e] =
                   IF ~doc.exists THEN [r EXCEPT !.data = Text("UnableToGet")]
                   ELSE IF Len(doc.images) > 0
                        THEN IF imageNum < 0 \/ imageNum >= Len(doc.images)
                             THEN [r EXCEPT !.data = InvalidData(doc.images)]
                             ELSE [r EXCEPT !.pc = "set",
                                            !.gallery = RemoveAt(doc.images, imageNum)]
                        ELSE [r EXCEPT !.data = Text("GalleryDoesNotExist")]]
    /\ UNCHANGED <<store, msg, commands, registered>>

\* removeImage up to the return of docRef.Get
GetRemove(e) ==
    /\ h[e].pc = "get" /\ h[e].kind = "image_delete_yes"
    /\ LET doc      == Lookup(h[e].g)
           imageNum == h[e].num
           r        == [h[e] EXCEPT !.read = doc, !.pc = "respond"]
       IN  h' = [h EXCEPT ![e] =
                   IF ~doc.exists THEN [r EXCEPT !.data = Text("GalleryDoesNotExist")]
                   ELSE IF Len(doc.images) > 0
                        THEN IF imageNum < 0 \/ imageNum >= Len(doc.images)
                             THEN [r EXCEPT !.data = InvalidData(doc.images)]
                             ELSE [r EXCEPT !.pc = "set",
                                            !.gallery = RemoveAt(doc.images, imageNum)]
                        ELSE [r EXCEPT !.data = Text("GalleryDoesNotExist")]]
    /\ UNCHANGED <<store, msg, commands, registered>>

\* docRef.Set(ctx, gallery) of removeImage returns without error
SetRemove(e) ==
    /\ h[e].pc = "set" /\ h[e].kind = "image_delete_yes"
    /\ Mutate(e, h[e].g, Doc(h[e].gallery), "respond",
              Data("ImageRemoved", <<h[e].g>>, h[e].num, -1, "", <<>>, {}))
    /\ UNCHANGED <<msg, commands, registered>>

\* ---------------------------------------------------------------- create
\* A variant of GetCreate that writes whatever Get answered.
GetCreateNoCheck(e) ==
    /\ NextId(e)
    /\ \E g \in Names :
         h' = [h EXCEPT ![e] =
                 [Begin(e, "create", g, 0, NoImage, "set") EXCEPT !.read = Lookup(g)]]
    /\ UNCHANGED <<store, msg, commands, registered>>

\* A variant of GetCreate that calls updateCommands() in the branch of a
\* gallery that already exists as well.
GetCreateSyncs(e) ==
    /\ NextId(e)
    /\ \E g \in Names :
         LET doc == Lookup(g)
             b   == [Begin(e, "create", g, 0, NoImage, "list") EXCEPT !.read = doc]
         IN  h' = [h EXCEPT ![e] =
                     IF ~doc.exists THEN [b EXCEPT !.pc = "set"]
                     ELSE [b EXCEPT !.data = Text("GalleryExists")]]
    /\ UNCHANGED <<store, msg, commands, registered>>

\* createGallery up to the return of docRef.Get
GetCreate(e) ==
    /\ NextId(e)
    /\ \E g \in Names :
         LET doc == Lookup(g)
             b   == [Begin(e, "create", g, 0, NoImage, "respond") EXCEPT !.read = doc]
         IN  h' = [h EXCEPT ![e] =
                     IF ~doc.exists THEN [b EXCEPT !.pc = "set"]
                     ELSE [b EXCEPT !.data = Text("GalleryExists")]]
    /\ UNCHANGED <<store, msg, commands, registered>>

\* A variant of SetCreate that returns the answer without updateCommands().
SetCreateNoSync(e) ==
    /\ h[e].pc = "set" /\ h[e].kind = "create"
    /\ Mutate(e, h[e].g, Doc(<<>>), "respond",
              Data("GalleryCreated", <<h[e].g>>, -1, -1, "", <<>>, {}))
    /\ UNCHANGED <<msg, commands, registered>>

\* docRef.Set(ctx, Gallery{}) returns without error; updateCommands() is next
SetCreate(e) ==
    /\ h[e].pc = "set" /\ h[e].kind = "create"
    /\ Mutate(e, h[e].g, Doc(<<>>), "list",
              Data("GalleryCreated", <<h[e].g>>, -1, -1, "", <<>>, {}))
    /\ UNCHANGED <<msg, commands, registered>>

\* ---------------------------------------------------- delete: the confirm
\* A variant of GetDelete that deletes whatever Get answered.
GetDeleteNoCheck(e) ==
    /\ h[e].pc = "get" /\ h[e].kind = "gallery_delete_yes"
    /\ h' = [h EXCEPT ![e] = [h[e] EXCEPT !.read = Lookup(h[e].g), !.pc = "delete"]]
    /\ UNCHANGED <<store, msg, commands, registered>>

\* deleteGallery up to the return of docRef.Get
GetDelete(e) ==
    /\ h[e].pc = "get" /\ h[e].kind = "gallery_delete_yes"
    /\ LET doc == Lookup(h[e].g)
           r   == [h[e] EXCEPT !.read = doc]
       IN  h' = [h EXCEPT ![e] =
                   IF ~doc.exists
                   THEN [r EXCEPT !.pc = "respond", !.data = Text("GalleryDoesNotExist")]
                   ELSE [r EXCEPT !.pc = "delete"]]
    /\ UNCHANGED <<store, msg, commands, registered>>

\* docRef.Delete(ctx) returns without error; updateCommands() is next
DeleteDoc(e) ==
    /\ h[e].pc = "delete"
    /\ h[e].g \in Names
    /\ Mutate(e, h[e].g, NoDoc, "list",
              Data("GalleryDeleted", <<h[e].g>>, -1, -1, "", <<>>, {}))
    /\ UNCHANGED <<msg, commands, registered>>

\* -------------------------------------------------------- updateCommands
\* A variant of SyncList without the assignment to gallery.delete.
SyncListFour(e) ==
    /\ h[e].pc = "list"
    /\ commands' = [c \in ChoiceSubs |-> IF c = "delete" THEN commands[c] ELSE ListNames]
    /\ h' = [h EXCEPT ![e].pc = "register"]
    /\ UNCHANGED <<store, msg, registered>>

\* populateGalleryChoices() and the five assignments into the command tree
SyncList(e) ==
    /\ h[e].pc = "list"
    /\ commands' = [c \in ChoiceSubs |-> ListNames]
    /\ h' = [h EXCEPT ![e].pc = "register"]
    /\ UNCHANGED <<store, msg, registered>>

\* updateCommands statement by statement.  The order of the five assignments
\* (lines 675-679):
ChoiceOrder == <<"random", "pick", "add_image", "remove_image", "delete">>

\* choices := populateGalleryChoices(): the names listed go to a local
ListChoices(e) ==
    /\ h[e].pc = "list"
    /\ h' = [h EXCEPT ![e].pc = "assign", ![e].choices = ListNames, ![e].slot = 0]
    /\ UNCHANGED <<store, msg, commands, registered>>

\* the next of the five assignments into the shared tree commands[0]
AssignChoices(e) ==
    /\ h[e].pc = "assign"
    /\ commands' = [commands EXCEPT ![ChoiceOrder[h[e].slot + 1]] = h[e].choices]
    /\ h' = [h EXCEPT ![e].slot = @ + 1,
                      ![e].pc = IF h[e].slot + 1 = Len(ChoiceOrder) THEN "register"
                                ELSE "assign"]
    /\ UNCHANGED <<store, msg, registered>>

\* s.ApplicationCommandCreate(..., commands[0]) sends the tree as it is now
SyncRegister(e) ==
    /\ h[e].pc = "register"
    /\ registered' = commands
    /\ h' = [h EXCEPT ![e].pc = "respond"]
    /\ UNCHANGED <<store, msg, commands>>

\* A variant of Respond in which every handler answers with a new message
\* (ChannelMessageWithSource), the component handlers too.
RespondNewMessage(e) ==
    /\ h[e].pc = "respond"
    /\ msg' = [msg EXCEPT ![e] = [posted |-> TRUE, data |-> h[e].data]]
    /\ h' = [h EXCEPT ![e].pc = "done", ![e].sent = @ + 1]
    /\ UNCHANGED <<store, commands, registered>>

\* A variant of Respond for handlers that share one lock around their store
\* calls and their answer: no answer is sent while another handler is inside
\* a store call.
RespondLocked(e) ==
    /\ h[e].pc = "respond"
    /\ \A d \in DOMAIN h \ {e} : h[d].pc \notin {"get", "set", "delete", "list", "hung"}
    /\ LET isComponent == h[e].kind \in ConfirmIds \cup CancelIds
           data        == IF isComponent THEN [h[e].data EXCEPT !.components = {}]
                          ELSE h[e].data
           m           == IF isComponent THEN h[e].target ELSE e
       IN  /\ msg' = [msg EXCEPT ![m] = [posted |-> TRUE, data |-> data]]
           /\ h' = [h EXCEPT ![e].pc = "done", ![e].data = data, ![e].sent = @ + 1]
    /\ UNCHANGED <<store, commands, registered>>

\* ---------------------------------------------------- InteractionRespond
\* A command answers with a new message (ChannelMessageWithSource); a
\* component handler clears data.Components and replaces the message its
\* button sits on (UpdateMessage).
Respond(e) ==
    /\ h[e].pc = "respond"
    /\ LET isComponent == h[e].kind \in ConfirmIds \cup CancelIds
           data        == IF isComponent THEN [h[e].data EXCEPT !.components = {}]
                          ELSE h[e].data
           m           == IF isComponent THEN h[e].target ELSE e
       IN  /\ msg' = [msg EXCEPT ![m] = [posted |-> TRUE, data |-> data]]
           /\ h' = [h EXCEPT ![e].pc = "done", ![e].data = data, ![e].sent = @ + 1]
    /\ UNCHANGED <<store, commands, registered>>

Next ==
    \E e \in EventIds :
        \/ GetRandom(e)
        \/ GetPick(e)
        \/ GetAdd(e)
        \/ SetAdd(e)
        \/ GetRemovePrompt(e)
        \/ GetDeletePrompt(e)
        \/ Click(e)
        \/ GetRemove(e)
        \/ SetRemove(e)
        \/ GetCreate(e)
        \/ SetCreate(e)
        \/ GetDelete(e)
        \/ DeleteDoc(e)
        \/ SyncList(e)
        \/ SyncRegister(e)
        \/ Respond(e)

Spec == Init /\ [][Next]_vars

\* ------------------------------------------------- prompts on display
\* The store as it is when an image-delete prompt has just been displayed:
\* removeImagePrompt built the prompt from the document it read.
InitImagePrompt ==
    /\ store \in Stores
    /\ h = [e \in EventIds |-> Idle]
    /\ \E g \in Names, k \in 0 .. (MaxInitLen - 1) :
         /\ k < Len(store[g].images)
         /\ msg = [m \in MsgIds |->
                     IF m = OldImagePrompt
                     THEN [posted |-> TRUE, data |-> RemovePromptData(g, k, store[g])]
                     ELSE NoMsg]
    /\ commands = [c \in ChoiceSubs |-> ListNames]
    /\ registered = commands

\* The store as it is when a gallery-delete prompt has just been displayed.
InitGalleryPrompt ==
    /\ store \in Stores
    /\ h = [e \in EventIds |-> Idle]
    /\ \E g \in Names :
         /\ store[g].exists
         /\ msg = [m \in MsgIds |->
                     IF m = OldGalleryPrompt
                     THEN [posted |-> TRUE, data |-> DeletePromptData(g, store[g])]
                     ELSE NoMsg]
    /\ commands = [c \in ChoiceSubs |-> ListNames]
    /\ registered = commands

\* The store as it is when a gallery-delete prompt and an image-delete prompt
\* are on display, each built from the document its handler read.
InitBothPrompts ==
    /\ store \in Stores
    /\ h = [e \in EventIds |-> Idle]
    /\ \E g \in Names, gi \in Names, k \in 0 .. (MaxInitLen - 1) :
         /\ store[g].exists
         /\ k < Len(store[gi].images)
         /\ msg = [m \in MsgIds |->
                     IF m = OldGalleryPrompt
                     THEN [posted |-> TRUE, data |-> DeletePromptData(g, store[g])]
                     ELSE IF m = OldImagePrompt
                     THEN [posted |-> TRUE, data |-> RemovePromptData(gi, k, store[gi])]
                     ELSE NoMsg]
    /\ commands = [c \in ChoiceSubs |-> ListNames]
    /\ registered = commands

\* ------------------------------------------------------- sub-systems
\* the commands that only read the store: random, pick and the two prompts
NextRead ==
    \E e \in 1 .. MaxReads :
        \/ GetRandom(e)
        \/ GetPick(e)
        \/ GetRemovePrompt(e)
        \/ GetDeletePrompt(e)
        \/ Respond(e)

SpecRead == Init /\ [][NextRead]_vars

\* concurrent add_image handlers
NextAdd ==
    \E e \in EventIds :
        \/ GetAdd(e)
        \/ SetAdd(e)
        \/ Respond(e)

SpecAdd == Init /\ [][NextAdd]_vars

\* the buttons of an image-delete prompt, and add_image
NextRemove ==
    \E e \in EventIds :
        \/ Click(e)
        \/ GetRemove(e)
        \/ SetRemove(e)
        \/ GetAdd(e)
        \/ SetAdd(e)
        \/ Respond(e)

SpecRemove == InitImagePrompt /\ [][NextRemove]_vars

\* create and the buttons of a gallery-delete prompt
NextGallery ==
    \E e \in EventIds :
        \/ GetCreate(e)
        \/ SetCreate(e)
        \/ Click(e)
        \/ GetDelete(e)
        \/ DeleteDoc(e)
        \/ SyncList(e)
        \/ SyncRegister(e)
        \/ Respond(e)

SpecGallery == InitGalleryPrompt /\ [][NextGallery]_vars

\* the buttons of a gallery-delete prompt and of an image-delete prompt
NextStale ==
    \E e \in EventIds :
        \/ Click(e)
        \/ GetDelete(e)
        \/ DeleteDoc(e)
        \/ SyncList(e)
        \/ SyncRegister(e)
        \/ GetRemove(e)
        \/ SetRemove(e)
        \/ Respond(e)

SpecStale == InitBothPrompts /\ [][NextStale]_vars

\* ------------------------------------------- store calls that fail
\* A store call may return an error other than codes.NotFound (the service is
\* unavailable, the deadline passed): Get then returns a nil snapshot.

\* the text of an error embed, or the prompt, a handler answers with
PromptOfGallery(g) ==
    Data("ConfirmGallery", <<>>, -1, -1, "", << Quote(g) >>,
         {"gallery_delete_yes", "gallery_delete_no"})

\* What each subcommand does when its Get fails, as the position it moves to
\* and the response data it holds.  random, pick and add_image test err != nil.
\* removeImagePrompt tests only codes.NotFound and then calls DataTo on the nil
\* snapshot: the library either dereferences it (the goroutine panics) or
\* returns an error.  createGallery matches neither of its two branches and
\* answers with the zero embed.  deleteGalleryPrompt tests only codes.NotFound
\* and goes on to build the prompt.
FailedGet(kind, g) ==
    CASE kind \in {"random", "pick", "add_image"} ->
            { [pc |-> "respond", data |-> Text("UnableToGet")] }
      [] kind \in {"remove_image", "image_delete_yes"} ->
            { [pc |-> "crashed", data |-> NoData],
              [pc |-> "respond", data |-> Text("UnableToGet")] }
      [] kind = "create" ->
            { [pc |-> "respond", data |-> NoData] }
      [] kind = "delete" ->
            { [pc |-> "respond", data |-> PromptOfGallery(g)] }

\* a subcommand arrives and its Get fails (the image number and the image
\* link play no part in what follows)
GetFails(e) ==
    /\ NextId(e)
    /\ \E g \in Names,
          kind \in {"random", "pick", "add_image", "remove_image", "create", "delete"} :
         \E out \in FailedGet(kind, g) :
            h' = [h EXCEPT ![e] =
                    [Begin(e, kind, g, 0, NoImage, out.pc)
                       EXCEPT !.data = out.data, !.err = TRUE]]
    /\ UNCHANGED <<store, msg, commands, registered>>

\* the Get of removeImage fails
GetRemoveFails(e) ==
    /\ h[e].pc = "get" /\ h[e].kind = "image_delete_yes"
    /\ \E out \in FailedGet(h[e].kind, h[e].g) :
         h' = [h EXCEPT ![e] =
                 [h[e] EXCEPT !.pc = out.pc, !.data = out.data, !.err = TRUE]]
    /\ UNCHANGED <<store, msg, commands, registered>>

\* the Get of deleteGallery fails: only codes.NotFound is tested, Delete is next
GetDeleteFails(e) ==
    /\ h[e].pc = "get" /\ h[e].kind = "gallery_delete_yes"
    /\ h' = [h EXCEPT ![e] = [h[e] EXCEPT !.pc = "delete", !.err = TRUE]]
    /\ UNCHANGED <<store, msg, commands, registered>>

\* docRef.Set of addImageToGallery or of removeImage returns an error
SetFails(e) ==
    /\ h[e].pc = "set" /\ h[e].kind \in {"add_image", "image_delete_yes"}
    /\ h' = [h EXCEPT ![e] =
                [h[e] EXCEPT !.pc = "respond", !.data = Text("UnableToModify"),
                             !.err = TRUE]]
    /\ UNCHANGED <<store, msg, commands, registered>>

\* A variant of SetCreateFails that goes on to updateCommands() as the
\* successful Set does.
SetCreateFailsSyncs(e) ==
    /\ h[e].pc = "set" /\ h[e].kind = "create"
    /\ h' = [h EXCEPT ![e] =
                [h[e] EXCEPT !.pc = "list", !.data = Text("UnableToCreate"),
                             !.err = TRUE]]
    /\ UNCHANGED <<store, msg, commands, registered>>

\* docRef.Set of createGallery returns an error: no updateCommands()
SetCreateFails(e) ==
    /\ h[e].pc = "set" /\ h[e].kind = "create"
    /\ h' = [h EXCEPT ![e] =
                [h[e] EXCEPT !.pc = "respond", !.data = Text("UnableToCreate"),
                             !.err = TRUE]]
    /\ UNCHANGED <<store, msg, commands, registered>>

\* docRef.Delete returns an error: no updateCommands()
DeleteFails(e) ==
    /\ h[e].pc = "delete"
    /\ h' = [h EXCEPT ![e] =
                [h[e] EXCEPT !.pc = "respond", !.data = Text("UnableToDelete"),
                             !.err = TRUE]]
    /\ UNCHANGED <<store, msg, commands, registered>>

\* one interaction at a time, every store call of which may fail
NextFail ==
    \E e \in 1 .. MaxReads :
        \/ GetFails(e)
        \/ GetRemovePrompt(e)
        \/ GetDeletePrompt(e)
        \/ GetAdd(e)
        \/ SetAdd(e)
        \/ SetFails(e)
        \/ GetCreate(e)
        \/ SetCreate(e)
        \/ SetCreateFails(e)
        \/ Click(e)
        \/ GetRemove(e)
        \/ GetRemoveFails(e)
        \/ SetRemove(e)
        \/ GetDelete(e)
        \/ GetDeleteFails(e)
        \/ DeleteDoc(e)
        \/ DeleteFails(e)
        \/ SyncList(e)
        \/ SyncRegister(e)
        \/ Respond(e)

SpecFail == InitBothPrompts /\ [][NextFail]_vars

\* ------------------------------------------------------- the dispatcher
\* /gallery with a subcommand name that is none of the six: the default
\* branch of commandHandlers["gallery"]
UnknownSubcommand(e) ==
    /\ NextId(e)
    /\ h' = [h EXCEPT ![e] =
                [Begin(e, "unknown_subcommand", <<>>, 0, NoImage, "respond")
                   EXCEPT !.data = Text("InvalidSubcommand")]]
    /\ UNCHANGED <<store, msg, commands, registered>>

\* an application command whose name is no key of commandHandlers, or a
\* component whose CustomID is no key of componentHandlers: the function
\* added by s.AddHandler finds no handler and returns
NoHandler(e) ==
    /\ NextId(e)
    /\ \E kind \in {"unknown_command", "unknown_component"} :
         h' = [h EXCEPT ![e] = Begin(e, kind, <<>>, 0, NoImage, "done")]
    /\ UNCHANGED <<store, msg, commands, registered>>

\* interactions of every routing: a subcommand, the buttons of the prompt it
\* displays, an unknown subcommand, an unknown command or component
NextDispatch ==
    \E e \in EventIds :
        \/ GetDeletePrompt(e)
        \/ Click(e)
        \/ GetDelete(e)
        \/ DeleteDoc(e)
        \/ SyncList(e)
        \/ SyncRegister(e)
        \/ UnknownSubcommand(e)
        \/ NoHandler(e)
        \/ Respond(e)

SpecDispatch == Init /\ [][NextDispatch]_vars

\* remove_image and delete, each from the subcommand to the buttons of the
\* prompt it displays
NextPrompt ==
    \E e \in EventIds :
        \/ GetRemovePrompt(e)
        \/ GetDeletePrompt(e)
        \/ Click(e)
        \/ GetRemove(e)
        \/ SetRemove(e)
        \/ GetDelete(e)
        \/ DeleteDoc(e)
        \/ SyncList(e)
        \/ SyncRegister(e)
        \/ Respond(e)

SpecPrompt == Init /\ [][NextPrompt]_vars

\* handlers on two galleries: add_image, create, and the buttons of an
\* image-delete prompt and of a gallery-delete prompt
NextPair ==
    \E e \in EventIds :
        \/ GetAdd(e)
        \/ SetAdd(e)
        \/ GetCreate(e)
        \/ SetCreate(e)
        \/ Click(e)
        \/ GetRemove(e)
        \/ SetRemove(e)
        \/ GetDelete(e)
        \/ DeleteDoc(e)
        \/ SyncList(e)
        \/ SyncRegister(e)
        \/ Respond(e)

\* Two galleries were created and one image was added to each; the prompts of
\* delete and of remove_image 0 were displayed for one of them; gallery a may
\* have been deleted since.
InitPair ==
    /\ h = [e \in EventIds |-> Idle]
    /\ \E image \in Images, g \in Names, present \in BOOLEAN :
         /\ store = [n \in Names |->
                       IF n = <<"a">> /\ ~present THEN NoDoc ELSE Doc(<<image>>)]
         /\ msg = [m \in MsgIds |->
                     IF m = OldGalleryPrompt
                     THEN [posted |-> TRUE, data |-> DeletePromptData(g, Doc(<<image>>))]
                     ELSE IF m = OldImagePrompt
                     THEN [posted |-> TRUE,
                           data |-> RemovePromptData(g, 0, Doc(<<image>>))]
                     ELSE NoMsg]
    /\ commands = [c \in ChoiceSubs |-> ListNames]
    /\ registered = commands

SpecPair == InitPair /\ [][NextPair]_vars

\* ------------------------------------------------------ a sequential run
\* One interaction after the other, on a store that starts empty: a create,
\* an add_image, a pick, a second add_image, a second pick, a remove_image
\* and a click on a control of the prompt on display.  The gallery names, the
\* image links and the image numbers are free.
Script ==
    << "create", "add_image", "pick", "add_image", "pick", "remove_image",
       "image_delete_yes" >>

RunIds == 1 .. Len(Script)

InitRun ==
    /\ store = [n \in Names |-> NoDoc]
    /\ h = [e \in RunIds |-> Idle]
    /\ msg = [m \in RunIds |-> NoMsg]
    /\ commands = [c \in ChoiceSubs |-> {}]
    /\ registered = commands

\* interaction e is the next of the script and no handler is running
Turn(e, kind) ==
    /\ Script[e] = kind
    /\ \A d \in RunIds \ {e} : ~Active(d)

NextRun ==
    \E e \in RunIds :
        \/ Turn(e, "create") /\ GetCreate(e)
        \/ SetCreate(e)
        \/ SyncList(e)
        \/ SyncRegister(e)
        \/ Turn(e, "add_image") /\ GetAdd(e)
        \/ SetAdd(e)
        \/ Turn(e, "pick") /\ GetPick(e)
        \/ Turn(e, "remove_image") /\ GetRemovePrompt(e)
        \/ Turn(e, "image_delete_yes") /\ Click(e)
        \/ GetRemove(e)
        \/ SetRemove(e)
        \/ Respond(e)

SpecRun == InitRun /\ [][NextRun]_vars

\* random, pick and add_image side by side
NextLookup ==
    \E e \in EventIds :
        \/ GetRandom(e)
        \/ GetPick(e)
        \/ GetAdd(e)
        \/ SetAdd(e)
        \/ Respond(e)

\* one gallery exists (empty, or holding one image), the other name is free
InitLookup ==
    /\ h = [e \in EventIds |-> Idle]
    /\ msg = [m \in MsgIds |-> NoMsg]
    /\ \E g \in Names, s \in SeqsUpTo(Images, 1) :
         store = [n \in Names |-> IF n = g THEN Doc(s) ELSE NoDoc]
    /\ commands = [c \in ChoiceSubs |-> ListNames]
    /\ registered = commands

SpecLookup == InitLookup /\ [][NextLookup]_vars

\* create and add_image on a store that starts empty, one handler more than
\* in the other sub-systems: two creates and an add_image can overlap
RaceIds == 1 .. (MaxEvents + 1)

InitCreate ==
    /\ store = [n \in Names |-> NoDoc]
    /\ h = [e \in RaceIds |-> Idle]
    /\ msg = [m \in RaceIds |-> NoMsg]
    /\ commands = [c \in ChoiceSubs |-> {}]
    /\ registered = commands

NextCreate ==
    \E e \in RaceIds :
        \/ GetCreate(e)
        \/ SetCreate(e)
        \/ SyncList(e)
        \/ SyncRegister(e)
        \/ GetAdd(e)
        \/ SetAdd(e)
        \/ Respond(e)

SpecCreate == InitCreate /\ [][NextCreate]_vars

\* create and the confirm of a gallery-delete prompt, with updateCommands
\* taken statement by statement; one gallery is stored and its delete prompt
\* is on display
InitSync ==
    /\ h = [e \in EventIds |-> Idle]
    /\ \E g \in Names :
         /\ store = [n \in Names |-> IF n = g THEN Doc(<<>>) ELSE NoDoc]
         /\ msg = [m \in MsgIds |->
                     IF m = OldGalleryPrompt
                     THEN [posted |-> TRUE, data |-> DeletePromptData(g, store[g])]
                     ELSE NoMsg]
    /\ commands = [c \in ChoiceSubs |-> ListNames]
    /\ registered = commands

NextSync ==
    \E e \in EventIds :
        \/ GetCreate(e)
        \/ SetCreate(e)
        \/ Click(e)
        \/ GetDelete(e)
        \/ DeleteDoc(e)
        \/ ListChoices(e)
        \/ AssignChoices(e)
        \/ SyncRegister(e)
        \/ Respond(e)

SpecSync == InitSync /\ [][NextSync]_vars

\* Both names were created and given the same image; the prompts of delete
\* and of remove_image 0 were displayed for one of them; gallery a may have
\* been deleted since.
InitFrame ==
    /\ h = [e \in EventIds |-> Idle]
    /\ \E g \in Names, present \in BOOLEAN :
         LET image == [imageUrl |-> "u1", timestamp |-> "t1", authorId |-> "m1"]
         IN  /\ store = [n \in Names |->
                           IF n = <<"a">> /\ ~present THEN NoDoc ELSE Doc(<<image>>)]
             /\ msg = [m \in MsgIds |->
                         IF m = OldGalleryPrompt
                         THEN [posted |-> TRUE, data |-> DeletePromptData(g, Doc(<<image>>))]
                         ELSE IF m = OldImagePrompt
                         THEN [posted |-> TRUE,
                               data |-> RemovePromptData(g, 0, Doc(<<image>>))]
                         ELSE NoMsg]
    /\ commands = [c \in ChoiceSubs |-> ListNames]
    /\ registered = commands

\* every subcommand and every control
NextFrame ==
    \E e \in EventIds :
        \/ GetRandom(e)
        \/ GetPick(e)
        \/ GetAdd(e)
        \/ SetAdd(e)
        \/ GetRemovePrompt(e)
        \/ GetDeletePrompt(e)
        \/ Click(e)
        \/ GetRemove(e)
        \/ SetRemove(e)
        \/ GetCreate(e)
        \/ SetCreate(e)
        \/ GetDelete(e)
        \/ DeleteDoc(e)
        \/ SyncList(e)
        \/ SyncRegister(e)
        \/ Respond(e)

SpecFrame == InitFrame /\ [][NextFrame]_vars

\* ------------------------------------------- a listing that fails
\* A variant of SyncListFails that returns from updateCommands when the
\* listing fails: the tree and the registration stay as they were.
SyncListFailsKeeps(e) ==
    /\ h[e].pc = "list"
    /\ h' = [h EXCEPT ![e].pc = "respond", ![e].err = TRUE]
    /\ UNCHANGED <<store, msg, commands, registered>>

\* populateGalleryChoices when GetAll returns an error: the error is logged,
\* galleries is nil, the loop adds nothing and the nil options are assigned
\* to the five subcommands
SyncListFails(e) ==
    /\ h[e].pc = "list"
    /\ commands' = [c \in ChoiceSubs |-> {}]
    /\ h' = [h EXCEPT ![e].pc = "register", ![e].err = TRUE]
    /\ UNCHANGED <<store, msg, registered>>

\* create and the confirm of a gallery-delete prompt, the listing of whose
\* updateCommands may fail
NextListing ==
    \E e \in EventIds :
        \/ GetCreate(e)
        \/ SetCreate(e)
        \/ Click(e)
        \/ GetDelete(e)
        \/ DeleteDoc(e)
        \/ SyncList(e)
        \/ SyncListFails(e)
        \/ SyncRegister(e)
        \/ Respond(e)

SpecListing == InitSync /\ [][NextListing]_vars

\* ------------------------------------------- store calls that never return
\* The store call handler e is about to make (Get, Set, Delete or the listing
\* of updateCommands) never returns: ctx is context.Background(), without a
\* deadline, and the goroutine stays in the call.
Hang(e) ==
    /\ h[e].pc \in {"get", "set", "delete", "list"}
    /\ h' = [h EXCEPT ![e].pc = "hung"]
    /\ UNCHANGED <<store, msg, commands, registered>>

\* the steps of handler e once its interaction has been dispatched
Progress(e) ==
    \/ GetRemove(e)
    \/ SetRemove(e)
    \/ SetCreate(e)
    \/ GetDelete(e)
    \/ DeleteDoc(e)
    \/ SyncList(e)
    \/ SyncRegister(e)
    \/ Respond(e)

\* Gallery a holds one image and its two prompts are on display; the other
\* name is free.
InitLive ==
    /\ h = [e \in EventIds |-> Idle]
    /\ LET image == [imageUrl |-> "u1", timestamp |-> "t1", authorId |-> "m1"]
           g     == <<"a">>
       IN  /\ store = [n \in Names |-> IF n = g THEN Doc(<<image>>) ELSE NoDoc]
           /\ msg = [m \in MsgIds |->
                       IF m = OldGalleryPrompt
                       THEN [posted |-> TRUE, data |-> DeletePromptData(g, store[g])]
                       ELSE IF m = OldImagePrompt
                       THEN [posted |-> TRUE, data |-> RemovePromptData(g, 0, store[g])]
                       ELSE NoMsg]
    /\ commands = [c \in ChoiceSubs |-> ListNames]
    /\ registered = commands

\* create and the controls of both prompts; any store call may stay without
\* an answer
NextLive ==
    \E e \in EventIds :
        \/ GetCreate(e)
        \/ Click(e)
        \/ Progress(e)
        \/ Hang(e)

\* Each handler is a goroutine of its own (the session starts one per event)
\* and the scheduler lets every runnable goroutine run: weak fairness of the
\* steps of each handler.  There is no fairness on Hang and none on arrivals.
SpecLive ==
    /\ InitLive
    /\ [][NextLive]_vars
    /\ \A e \in EventIds : WF_vars(Progress(e))

\* ================================================================ claims
Contains(images, image) == \E i \in 1 .. Len(images) : images[i] = image

Count(images, image) == Cardinality({ i \in 1 .. Len(images) : images[i] = image })

Finished(e, kind, desc) ==
    h[e].pc = "done" /\ h[e].kind = kind /\ h[e].data.desc = desc

\* C1 (checked under SpecAdd).  No lost update: when two add_image handlers
\* for the same gallery have both finished with "Image created", the stored
\* sequence of that gallery contains the image of each.
C1_NoLostUpdate ==
    \A a, b \in EventIds :
        ( /\ a # b
          /\ Finished(a, "add_image", "ImageCreated")
          /\ Finished(b, "add_image", "ImageCreated")
          /\ h[a].g = h[b].g )
        => /\ Contains(store[h[a].g].images, h[a].image)
           /\ Contains(store[h[a].g].images, h[b].image)

\* C2 (checked under SpecRemove).  An add_image handler and a confirmed
\* remove_image handler on the same gallery that read the same prior sequence
\* and both reported success, no third handler having written the gallery:
\* the stored sequence is the one of the handler that wrote last, so it shows
\* that handler's mutation of the prior sequence and not the other's.
C2_RacePair(a, r) ==
    /\ Finished(a, "add_image", "ImageCreated")
    /\ Finished(r, "image_delete_yes", "ImageRemoved")
    /\ h[a].g = h[r].g
    /\ h[a].read = h[r].read
    /\ \A x \in EventIds \ {a, r} : h[x].g = h[a].g => h[x].wrote = 0

C2_LastWriteWins ==
    \A a, r \in EventIds :
        C2_RacePair(a, r)
        => LET prior == h[a].read.images
               now   == store[h[a].g].images
           IN  IF h[a].stamp > h[r].stamp
               THEN now = AppendImage(prior, h[a].image)
               ELSE now = RemoveAt(prior, h[r].num)

\* both orders of the two writes are reached
C2_Witness ==
    \E a, r \in EventIds :
        /\ C2_RacePair(a, r)
        /\ h[a].stamp < h[r].stamp
        /\ ~Contains(store[h[a].g].images, h[a].image)
        /\ msg[a].data.desc = "ImageCreated"

\* C3 (checked under SpecRemove).  At most one Set or Delete is ever performed
\* by the handlers of the confirm controls of one prompt message.
C3_OncePerPrompt ==
    \A m \in MsgIds :
        Cardinality({ e \in EventIds : /\ h[e].kind \in ConfirmIds
                                       /\ h[e].target = m
                                       /\ h[e].wrote > 0 }) <= 1

\* C4 (checked under SpecStale).  The confirm handler of an image-delete
\* prompt whose Get finds no gallery answers "Gallery does not exist",
\* completes no Set, and its response replaces the prompt by a message
\* without controls.
C4_StaleConfirm ==
    \A e \in EventIds :
        ( /\ h[e].kind = "image_delete_yes"
          /\ h[e].pc \in {"respond", "done"}
          /\ ~h[e].read.exists )
        => /\ h[e].data.desc = "GalleryDoesNotExist"
           /\ h[e].wrote = 0
           /\ h[e].pc = "done" =>
                /\ msg[h[e].target].posted
                /\ msg[h[e].target].data.desc # ""
                /\ msg[h[e].target].data.components = {}

\* the gallery named by the prompt was deleted by an earlier confirm, and the
\* image confirm is about to answer
C4_Witness ==
    \E e, d \in EventIds :
        /\ d < e
        /\ Finished(d, "gallery_delete_yes", "GalleryDeleted")
        /\ h[e].kind = "image_delete_yes" /\ h[e].pc = "respond"
        /\ h[e].g = h[d].g
        /\ msg[h[e].target].data.fields[1] = Quote(h[e].g)
        /\ ~h[e].read.exists
        /\ h[d].stamp > 0

\* C5 (checked under SpecRead).  pick on a gallery holding N > 0 images
\* answers with the image stored at position k when 0 <= k < N and with the
\* invalid-number message, and no image, otherwise; the answer is what the
\* message displays.
C5_Pick ==
    \A e \in EventIds :
        ( /\ h[e].kind = "pick"
          /\ h[e].pc \in {"respond", "done"}
          /\ store[h[e].g].exists
          /\ Len(store[h[e].g].images) > 0 )
        => LET images == store[h[e].g].images
               k      == h[e].num
           IN  /\ IF 0 <= k /\ k < Len(images)
                  THEN /\ h[e].data.desc = "Image"
                       /\ h[e].data.url = images[k + 1].imageUrl
                       /\ h[e].data.num = k
                  ELSE /\ h[e].data.desc = "InvalidImageNumber"
                       /\ h[e].data.url = ""
               /\ h[e].pc = "done" => msg[e] = [posted |-> TRUE, data |-> h[e].data]

C5_Witness ==
    \E e \in EventIds :
        /\ Finished(e, "pick", "Image")
        /\ h[e].num = 1
        /\ msg[e].data.url = store[h[e].g].images[2].imageUrl

\* C6 (checked under SpecAdd).  An add_image handler whose Set has returned,
\* no other handler having changed the gallery meanwhile: the stored sequence
\* is the sequence the handler read with its image (url, author id and
\* timestamp of the interaction) appended at the last position.
C6_Case(e) ==
    /\ h[e].kind = "add_image"
    /\ h[e].pc = "respond"
    /\ h[e].data.desc = "ImageCreated"
    /\ ~h[e].dirty

C6_Append ==
    \A e \in EventIds :
        C6_Case(e)
        => LET old == h[e].read.images
               new == store[h[e].g].images
           IN  /\ store[h[e].g].exists
               /\ Len(new) = Len(old) + 1
               /\ \A i \in 1 .. Len(old) : new[i] = old[i]
               /\ new[Len(new)] = h[e].image
               /\ h[e].image \in Images

C6_Witness ==
    \E e \in EventIds :
        /\ C6_Case(e)
        /\ Len(h[e].read.images) = MaxInitLen
        /\ h[e].read.images[1] # h[e].image

\* C7 (checked under SpecRemove).  A confirm handler of an image-delete
\* prompt whose Set has returned, no other handler having changed the gallery
\* meanwhile: the stored sequence is one shorter than the sequence read, the
\* elements before idx are unchanged and those after idx moved down by one.
C7_Case(e) ==
    /\ h[e].kind = "image_delete_yes"
    /\ h[e].pc = "respond"
    /\ h[e].data.desc = "ImageRemoved"
    /\ ~h[e].dirty

C7_Shifted(e) ==
    LET old == h[e].read.images
        new == store[h[e].g].images
        idx == h[e].num
    IN  /\ 0 <= idx /\ idx < Len(old)
        /\ store[h[e].g].exists
        /\ Len(new) = Len(old) - 1
        /\ \A i \in 1 .. idx : new[i] = old[i]
        /\ \A i \in (idx + 2) .. Len(old) : new[i - 1] = old[i]

\* C7 as stated: ... and the new sequence no longer contains the element
\* previously at idx.
C7_Original ==
    \A e \in EventIds :
        C7_Case(e)
        => /\ C7_Shifted(e)
           /\ ~Contains(store[h[e].g].images, h[e].read.images[h[e].num + 1])

\* C7 as amended: ... and the element previously at idx occurs once less in
\* the new sequence (it is gone unless an equal record sat at another
\* position too).
C7_RemoveAt ==
    \A e \in EventIds :
        C7_Case(e)
        => /\ C7_Shifted(e)
           /\ Count(store[h[e].g].images, h[e].read.images[h[e].num + 1])
                = Count(h[e].read.images, h[e].read.images[h[e].num + 1]) - 1

C7_Witness ==
    \E e \in EventIds :
        /\ C7_Case(e)
        /\ h[e].num = 0
        /\ Len(h[e].read.images) = MaxInitLen
        /\ h[e].read.images[1] # h[e].read.images[2]

\* C8 (checked under SpecRead).  remove_image with an index outside
\* 0 .. length-1 of an existing gallery, at the prompt or at the confirm, is
\* answered with the invalid-image-number message and completes no Set.
C8_OutOfRange ==
    \A e \in EventIds :
        ( /\ h[e].kind \in {"remove_image", "image_delete_yes"}
          /\ h[e].pc \in {"respond", "done"}
          /\ h[e].read.exists
          /\ (h[e].num < 0 \/ h[e].num >= Len(h[e].read.images)) )
        => /\ h[e].data.desc = "InvalidImageNumber"
           /\ h[e].wrote = 0

\* C9 (checked under SpecGallery).  create with no other handler changing the
\* gallery meanwhile: when Get found no gallery the handler stores an empty
\* one and answers "created"; when Get found a gallery the handler answers
\* "already exists", completes no Set, and the gallery is as it was read.
C9_Create ==
    \A e \in EventIds :
        ( h[e].kind = "create" /\ h[e].pc \in {"list", "register", "respond"} /\ ~h[e].dirty )
        => IF h[e].read.exists
           THEN /\ h[e].data.desc = "GalleryExists"
                /\ h[e].wrote = 0
                /\ store[h[e].g] = h[e].read
           ELSE /\ h[e].data.desc = "GalleryCreated"
                /\ h[e].wrote = 1
                /\ store[h[e].g] = Doc(<<>>)

\* a second create of the same name, after the first has finished
C9_Witness ==
    \E a, b \in EventIds :
        /\ Finished(a, "create", "GalleryCreated")
        /\ h[b].kind = "create" /\ h[b].pc = "respond" /\ ~h[b].dirty
        /\ h[b].g = h[a].g
        /\ h[b].data.desc = "GalleryExists"

\* C10 (checked under SpecGallery).  The confirm handler of a gallery-delete
\* prompt, no other handler changing the gallery meanwhile: when Get found the
\* gallery the document (and with it every image) is gone and the answer is
\* "deleted"; when Get found none the answer is "Gallery does not exist" and
\* the handler completes no Set or Delete.
C10_Delete ==
    \A e \in EventIds :
        ( /\ h[e].kind = "gallery_delete_yes"
          /\ h[e].pc \in {"list", "register", "respond"}
          /\ ~h[e].dirty )
        => IF h[e].read.exists
           THEN /\ h[e].data.desc = "GalleryDeleted"
                /\ h[e].wrote = 1
                /\ store[h[e].g] = NoDoc
           ELSE /\ h[e].data.desc = "GalleryDoesNotExist"
                /\ h[e].wrote = 0
                /\ store[h[e].g] = NoDoc

\* a second confirm for the same gallery, after the first has deleted it
C10_Witness ==
    \E a, b \in EventIds :
        /\ Finished(a, "gallery_delete_yes", "GalleryDeleted")
        /\ Len(h[a].read.images) > 0
        /\ h[b].kind = "gallery_delete_yes" /\ h[b].pc = "respond" /\ ~h[b].dirty
        /\ h[b].g = h[a].g
        /\ h[b].data.desc = "GalleryDoesNotExist"

\* C11 (checked under SpecStale).  Every step of the handler of a cancel
\* control, of a gallery-delete prompt or of an image-delete prompt, leaves
\* the store, the command tree and the registered choices as they are; the
\* handler goes from the click straight to its response and completes no Set
\* or Delete.
C11_CancelFrame ==
    [][ \A e \in EventIds :
          ( h'[e].kind \in CancelIds /\ h'[e].pc # h[e].pc )
          => /\ store' = store
             /\ commands' = commands
             /\ registered' = registered
             /\ h'[e].wrote = 0
             /\ h'[e].pc \in {"respond", "done"} ]_vars

\* both cancel controls have been activated and answered; the gallery the
\* gallery prompt names is still stored
C11_Witness ==
    \E a, b \in EventIds :
        /\ Finished(a, "gallery_delete_no", "CancelledGallery")
        /\ Finished(b, "image_delete_no", "CancelledImage")
        /\ msg[h[a].target].data.components = {}
        /\ \E n \in Names : h[a].field = Quote(n) /\ store[n].exists

\* C12 (checked under SpecFail).  A handler of one of the four controls that
\* has answered, whatever its store calls returned, has made one
\* InteractionRespond call, and that call replaced the message its control sat
\* on by a message without controls; it created no message of its own.
C12_Inert ==
    \A e \in EventIds :
        ( h[e].kind \in ConfirmIds \cup CancelIds /\ h[e].pc = "done" )
        => /\ h[e].sent = 1
           /\ h[e].target \in MsgIds \ {e}
           /\ msg[h[e].target].posted
           /\ msg[h[e].target].data.components = {}
           /\ h[e].data.components = {}
           /\ ~msg[e].posted

\* a confirm whose Delete failed has answered on the prompt
C12_Witness ==
    \E e \in EventIds :
        /\ Finished(e, "gallery_delete_yes", "UnableToDelete")
        /\ h[e].err
        /\ msg[h[e].target].data.desc = "UnableToDelete"
        /\ msg[h[e].target].data.components = {}

\* C13 (checked under SpecDispatch).  Every interaction is answered exactly
\* once: no handler makes a second InteractionRespond call, and an interaction
\* whose handling has ended has had one.
C13_ExactlyOne ==
    \A e \in EventIds :
        /\ h[e].sent <= 1
        /\ h[e].pc = "done" => h[e].sent = 1

\* C14 (checked under SpecDispatch).  An interaction with an unknown command
\* name, subcommand name or component id, once its handling has ended, has
\* been answered with a message that carries a description, and no Set or
\* Delete was completed for it.
C14_Diagnosed ==
    \A e \in EventIds :
        ( /\ h[e].kind \in {"unknown_command", "unknown_subcommand", "unknown_component"}
          /\ h[e].pc = "done" )
        => /\ msg[e].posted
           /\ msg[e].data.desc # ""
           /\ h[e].wrote = 0

\* C15 (checked under SpecFail).  The answer of remove_image and of delete
\* carries the confirm and cancel controls only when the handler's Get
\* succeeded and found the target (the gallery; for remove_image an index
\* within the sequence read as well); every other answer, the one after a
\* failed Get included, carries an error description and no control.
C15_PromptOnlyIfTarget ==
    \A e \in EventIds :
        ( h[e].kind \in {"remove_image", "delete"} /\ h[e].pc \in {"respond", "done"} )
        => IF h[e].data.components # {}
           THEN /\ ~h[e].err
                /\ h[e].read.exists
                /\ h[e].kind = "remove_image"
                     => (0 <= h[e].num /\ h[e].num < Len(h[e].read.images))
           ELSE h[e].data.desc \in {"GalleryDoesNotExist", "InvalidImageNumber", "UnableToGet"}

\* C16 (checked under SpecPrompt).  The handlers of the remove_image and
\* delete subcommands complete no Set or Delete; a handler that has completed
\* one is the handler of a confirm control, and the message it was clicked on
\* is the prompt that an earlier remove_image (delete) subcommand emitted for
\* the gallery, and the index, the handler acts on.
C16_ViaPrompt ==
    \A e \in EventIds :
        /\ h[e].kind \in {"remove_image", "delete"} => h[e].wrote = 0
        /\ h[e].wrote > 0 =>
             /\ h[e].kind \in ConfirmIds
             /\ \E p \in EventIds :
                  /\ p < e
                  /\ p = h[e].target
                  /\ h[p].pc = "done"
                  /\ h[p].g = h[e].g
                  /\ IF h[e].kind = "image_delete_yes"
                     THEN /\ h[p].kind = "remove_image"
                          /\ h[p].data.desc = "ConfirmImage"
                          /\ h[p].num = h[e].num
                     ELSE /\ h[p].kind = "delete"
                          /\ h[p].data.desc = "ConfirmGallery"

\* C17 (checked under SpecGallery).  A create or a confirmed delete that has
\* written the store and finished its sync, every other handler being idle or
\* finished without having written: for each of random, pick, add_image,
\* remove_image and delete the choices registered are the names of the
\* galleries stored.
C17_Case(e) ==
    /\ h[e].kind \in {"create", "gallery_delete_yes"}
    /\ h[e].pc \in {"respond", "done"}
    /\ h[e].wrote = 1
    /\ \A d \in EventIds \ {e} : ~Active(d) /\ h[d].wrote = 0

C17_Synced ==
    \A e \in EventIds :
        C17_Case(e) => \A c \in ChoiceSubs : registered[c] = ListNames

\* a gallery has been created and its name is offered; before, another
\* gallery was stored and the create of its name had been refused
C17_Witness ==
    \E e \in EventIds :
        /\ C17_Case(e)
        /\ Finished(e, "create", "GalleryCreated")
        /\ h[e].g \in registered["delete"]
        /\ Cardinality(registered["random"]) = 2
        /\ \E d \in EventIds : Finished(d, "create", "GalleryExists")

\* C18 (checked under SpecFail).  A handler one of whose store calls returned
\* an error other than not-found does not panic, and the answer it holds or
\* has sent carries one of the error descriptions.
C18_ErrorsReported ==
    \A e \in EventIds :
        h[e].err
        => /\ h[e].pc # "crashed"
           /\ h[e].pc \in {"respond", "done"}
                => h[e].data.desc \in {"UnableToGet", "UnableToModify",
                                       "UnableToCreate", "UnableToDelete"}

C20_Added(g, e) ==
    /\ Finished(1, "create", "GalleryCreated") /\ h[1].g = g
    /\ Finished(e, "add_image", "ImageCreated") /\ h[e].g = g

C20_Shows(e, image, k, last) ==
    /\ h[e].data.desc = "Image"
    /\ h[e].data.url = image.imageUrl
    /\ h[e].data.num = k
    /\ h[e].data.last = last
    /\ msg[e] = [posted |-> TRUE, data |-> h[e].data]

C20_EndToEnd ==
    \A g \in Names :
        /\ ( C20_Added(g, 2) /\ h[3].pc = "done" /\ h[3].g = g /\ h[3].num = 0 )
             => C20_Shows(3, h[2].image, 0, 0)
        /\ ( C20_Added(g, 2) /\ C20_Added(g, 4) /\ h[5].pc = "done" /\ h[5].g = g )
             => /\ h[5].num = 0 => C20_Shows(5, h[2].image, 0, 1)
                /\ h[5].num = 1 => C20_Shows(5, h[4].image, 1, 1)
        /\ ( /\ C20_Added(g, 2) /\ C20_Added(g, 4)
             /\ h[6].pc = "done" /\ h[6].g = g /\ h[6].num = 0
             /\ h[7].pc = "done" /\ h[7].kind = "image_delete_yes" )
             => store[g] = Doc(<< h[4].image >>)

\* C21 (checked under SpecRead).  random on a gallery that holds N > 0 images
\* answers with the image stored at some index k, 0 <= k < N, under the label
\* "k of N-1"; for N = 1 that index is 0; and whenever a random command can
\* arrive for such a gallery, each index 0 .. N-1 is an outcome it can have.
C21_Shown(e) ==
    LET images == h[e].read.images
        k      == h[e].data.num
    IN  /\ h[e].data.desc = "Image"
        /\ 0 <= k /\ k < Len(images)
        /\ h[e].data.url = images[k + 1].imageUrl
        /\ h[e].data.last = Len(images) - 1
        /\ h[e].data.args = << h[e].g >>
        /\ Len(images) = 1 => k = 0

C21_Random ==
    /\ \A e \in EventIds :
         ( h[e].kind = "random" /\ h[e].read.exists /\ Len(h[e].read.images) > 0 )
         => C21_Shown(e)
    /\ \A e \in 1 .. MaxReads, g \in Names :
         ( NextId(e) /\ Len(store[g].images) > 0 )
         => \A k \in 0 .. (Len(store[g].images) - 1) :
              ENABLED ( GetRandom(e) /\ h'[e].g = g /\ h'[e].data.num = k )

\* random has answered with the second of two images, under the label "1 of 1"
C21_Witness ==
    \E e \in EventIds :
        /\ Finished(e, "random", "Image")
        /\ Len(h[e].read.images) = 2
        /\ h[e].data.num = 1 /\ h[e].data.last = 1
        /\ h[e].data.url = h[e].read.images[2].imageUrl
        /\ msg[e] = [posted |-> TRUE, data |-> h[e].data]

\* C22 (checked under SpecLookup).  A random, pick or add_image whose Get
\* found no document of the name answers "Unable to get gallery contents",
\* makes no Set, and no step it takes changes the store: the gallery an
\* add_image found missing is not brought into existence by it.
C22_Case(e) ==
    /\ h[e].kind \in {"random", "pick", "add_image"}
    /\ h[e].pc # "idle"
    /\ ~h[e].read.exists

C22_Missing ==
    [][ \A e \in EventIds :
          C22_Case(e)'
          => /\ h'[e].data.desc = "UnableToGet"
             /\ h'[e].pc \in {"respond", "done"}
             /\ h'[e].wrote = 0
             /\ h'[e].pc # h[e].pc => store' = store
             /\ h'[e].pc = "done" => msg'[e] = [posted |-> TRUE, data |-> h'[e].data] ]_vars

\* an add_image, a random or a pick has answered for a name that is still
\* missing from the store
C22_Witness ==
    \E a, r \in EventIds :
        /\ Finished(a, "add_image", "UnableToGet")
        /\ h[r].pc = "done" /\ h[r].kind \in {"random", "pick"}
        /\ h[r].data.desc = "UnableToGet"
        /\ ~h[a].read.exists /\ ~store[h[a].g].exists
        /\ ~h[r].read.exists

\* C23 (checked under SpecPair).  A gallery is in the store only if a create
\* of its name has written after the latest completed Delete of that name:
\* for every confirmed delete of g that has deleted, either g is absent or a
\* create of g wrote later.  (The galleries of the initial state were
\* created before it.)
C23_Deleted(d, g) ==
    h[d].kind = "gallery_delete_yes" /\ h[d].g = g /\ h[d].wrote > 0

C23_Created(c, g) ==
    h[c].kind = "create" /\ h[c].g = g /\ h[c].wrote > 0

C23_NoResurrection ==
    \A g \in Names :
        store[g].exists
        => \A d \in EventIds :
             C23_Deleted(d, g)
             => \E c \in EventIds : C23_Created(c, g) /\ h[c].stamp > h[d].stamp

\* C24 (checked under SpecCreate).  Among creates and add_images of one name
\* on a store without deletes: the Set of a create never lands on a gallery
\* that is present, so no stored image is removed by it, and no two creates
\* of the same name both hold the answer "gallery created".
C24_CreateOnce ==
    [][ /\ \A e \in RaceIds :
             ( h[e].kind = "create" /\ h'[e].wrote = h[e].wrote + 1 )
             => ~store[h[e].g].exists
        /\ \A c, d \in RaceIds :
             ( /\ c # d /\ h'[c].g = h'[d].g
               /\ h'[c].kind = "create" /\ h'[d].kind = "create" )
             => ~( h'[c].wrote > 0 /\ h'[d].wrote > 0 ) ]_vars

\* C25 (checked under SpecPrompt).  The data of a prompt survives the trip
\* through the message: when a control of a prompt is activated, the gallery
\* name the handler recovers (strings.Trim of the first field) is the name the
\* prompt shows there between backticks, and the index the confirm handler of
\* an image prompt recovers (strconv.Atoi of the second field) is the index
\* the prompt shows there in decimal.
C25_RoundTrip ==
    [][ \A e \in EventIds :
          ( h[e].pc = "idle" /\ h'[e].kind \in ConfirmIds \cup CancelIds )
          => LET fields == msg[h'[e].target].data.fields
             IN  /\ fields[1] = Quote(h'[e].g)
                 /\ h'[e].kind = "image_delete_yes" => fields[2] = FormatInt(h'[e].num) ]_vars

\* C26 (checked under SpecRemove).  The confirm removes the image its prompt
\* shows: when a confirm handler, clicked on a prompt of the gallery it
\* addresses that is still on display, has read the gallery and goes on to
\* write it without the image at its index, that image is the one whose link,
\* author and time the prompt displays.
C26_RemovesShown ==
    [][ \A e \in EventIds :
          ( /\ h[e].kind = "image_delete_yes"
            /\ h[e].pc = "get" /\ h'[e].pc = "set"
            /\ h[e].field = Quote(h[e].g)
            /\ msg[h[e].target].data.desc = "ConfirmImage" )
          => LET removed == h'[e].read.images[h[e].num + 1]
                 shown   == msg[h[e].target].data
             IN  /\ removed.imageUrl = shown.url
                 /\ << removed.authorId >> = shown.fields[3]
                 /\ << removed.timestamp >> = shown.fields[4] ]_vars

\* C27 (checked under SpecFail).  A create or a confirmed delete whose Get
\* returned an error other than codes.NotFound goes straight to its answer:
\* it calls neither Set nor Delete nor updateCommands.  (A handler that holds
\* an error and neither "unable to create" nor "unable to delete" is one
\* whose Get failed.)
C27_FailedRead ==
    \A e \in EventIds :
        ( /\ h[e].kind \in {"create", "gallery_delete_yes"}
          /\ h[e].err
          /\ h[e].data.desc \notin {"UnableToCreate", "UnableToDelete"} )
        => /\ h[e].pc \in {"respond", "done"}
           /\ h[e].wrote = 0

\* C28 (checked under SpecFail).  A handler holds one of the four success
\* answers only if its Set or Delete returned without error.  A handler whose
\* Set or Delete returned an error holds the matching error answer, has
\* written nothing, is on its way to InteractionRespond without a call of
\* updateCommands, and the steps it takes change neither the store nor the
\* command tree nor the registration; its answer is the message it posts.
C28_Success == {"ImageCreated", "ImageRemoved", "GalleryCreated", "GalleryDeleted"}

C28_Failure == {"UnableToModify", "UnableToCreate", "UnableToDelete"}

C28_WriteFails ==
    [][ \A e \in EventIds :
          /\ h'[e].data.desc \in C28_Success => h'[e].wrote = 1
          /\ h'[e].data.desc \in C28_Failure
             => /\ h'[e].wrote = 0 /\ h'[e].err
                /\ h'[e].pc \in {"respond", "done"}
                /\ h'[e].pc # h[e].pc
                   => /\ store' = store
                      /\ commands' = commands /\ registered' = registered
                /\ ( h[e].pc = "respond" /\ h'[e].pc = "done" )
                   => LET m == IF h[e].kind \in ConfirmIds THEN h[e].target ELSE e
                      IN  msg'[m] = [posted |-> TRUE, data |-> h'[e].data] ]_vars

\* the Set of an add_image has failed: the handler has answered "unable to
\* modify" and the gallery is as the handler read it
C28_Witness ==
    \E e \in EventIds :
        /\ Finished(e, "add_image", "UnableToModify")
        /\ h[e].err /\ h[e].read.exists
        /\ store[h[e].g] = h[e].read
        /\ msg[e] = [posted |-> TRUE, data |-> h[e].data]

\* C29 (checked under SpecSync).  Once every create and confirmed delete
\* has finished, the choices last registered for each of the five
\* subcommands are the names of the galleries stored.
C29_Quiescent ==
    ( \A e \in EventIds : ~Active(e) )
    => \A c \in ChoiceSubs : registered[c] = ListNames

\* C30 (checked under SpecSync).  The five choice lists of a registration
\* are one and the same list.
C30_SameLists ==
    \A c, d \in ChoiceSubs : registered[c] = registered[d]

\* C31 (checked under SpecFrame).  After startup, updateCommands runs only in
\* a create whose Set, or a confirmed delete whose Delete, returned without
\* error: only such a handler is ever inside updateCommands, and a step
\* changes the command tree or the registration only if it is a step of
\* updateCommands in such a handler.  A create answered "already exists", a
\* confirm answered "does not exist", the prompts, the cancels, add_image,
\* the image confirm, pick and random leave both as they are.
C31_Syncing(e) ==
    /\ h[e].kind \in {"create", "gallery_delete_yes"}
    /\ h[e].pc \in {"list", "assign", "register"}
    /\ h[e].wrote = 1
    /\ h[e].data.desc \in {"GalleryCreated", "GalleryDeleted"}

C32_Case(e) ==
    /\ h[e].kind \in {"create", "gallery_delete_yes"}
    /\ h[e].err
    /\ \A d \in EventIds \ {e} : h[d].wrote = 0

C32_EmptyLists ==
    \A e \in EventIds :
        C32_Case(e)
        => /\ h[e].pc \in {"register", "respond", "done"}
           /\ h[e].wrote = 1
           /\ h[e].data.desc \in {"GalleryCreated", "GalleryDeleted"}
           /\ \A c \in ChoiceSubs : commands[c] = {}
           /\ h[e].pc \in {"respond", "done"} => \A c \in ChoiceSubs : registered[c] = {}

\* a create has answered after a sync whose listing failed: two galleries
\* are stored, one of them was offered before, and none is offered now
C32_Witness ==
    \E e \in EventIds :
        /\ C32_Case(e)
        /\ Finished(e, "create", "GalleryCreated")
        /\ Cardinality(ListNames) = 2
        /\ \A c \in ChoiceSubs : registered[c] = {}

\* C33 (checked under SpecSync).  A create or confirmed delete that holds its
\* success answer goes through its steps in one order: the Set or Delete,
\* the listing, the five assignments, the registration, the response.  The
\* response is sent once, after the registration call, and by then the
\* handler has written and made all its assignments.
C33_Steps ==
    { <<"set", "list">>, <<"delete", "list">>, <<"list", "assign">>,
      <<"assign", "assign">>, <<"assign", "register">>,
      <<"register", "respond">>, <<"respond", "done">> }

C33_Order ==
    [][ \A e \in EventIds :
          h'[e].data.desc \in {"GalleryCreated", "GalleryDeleted"}
          => /\ ( h'[e].pc # h[e].pc \/ h'[e].slot # h[e].slot )
                => <<h[e].pc, h'[e].pc>> \in C33_Steps
             /\ h'[e].pc = "list" => h'[e].wrote = 1 /\ h'[e].sent = 0
             /\ ( h[e].pc = "list" /\ h'[e].pc = "assign" )
                => h'[e].choices = ListNames
             /\ ( h[e].pc = "register" /\ h'[e].pc = "respond" )
                => registered' = commands /\ h'[e].slot = Len(ChoiceOrder)
             /\ h'[e].sent > 0
                => /\ h'[e].pc = "done" /\ h'[e].sent = 1
                   /\ h'[e].wrote = 1 /\ h'[e].slot = Len(ChoiceOrder) ]_vars

\* a confirmed delete has deleted, synced and then answered on its prompt
C33_Witness ==
    \E e \in EventIds :
        /\ Finished(e, "gallery_delete_yes", "GalleryDeleted")
        /\ h[e].wrote = 1 /\ h[e].slot = Len(ChoiceOrder) /\ h[e].sent = 1
        /\ ~store[h[e].g].exists
        /\ msg[h[e].target] = [posted |-> TRUE, data |-> h[e].data]

\* C34 (checked under SpecAdd).  An add_image whose Set has returned, no
\* other handler having changed the gallery meanwhile: the number k in its
\* answer "Image k created" is the position of its image in the stored
\* sequence, and a pick of k on the gallery as stored shows that image.
C34_Case(e) ==
    /\ h[e].kind = "add_image"
    /\ h[e].pc = "respond"
    /\ h[e].data.desc = "ImageCreated"
    /\ ~h[e].dirty

C34_Announced ==
    \A e \in EventIds :
        C34_Case(e)
        => LET k      == h[e].data.num
               doc    == store[h[e].g]
               picked == PickData(h[e].g, k, doc)
           IN  /\ 0 <= k /\ k < Len(doc.images)
               /\ doc.images[k + 1] = h[e].image
               /\ picked.desc = "Image"
               /\ picked.num = k
               /\ picked.url = h[e].image.imageUrl

\* an image was added behind two others and announced as image 2
C34_Witness ==
    \E e \in EventIds :
        /\ C34_Case(e)
        /\ h[e].data.num = 2
        /\ Len(h[e].read.images) = 2
        /\ store[h[e].g].images[3] = h[e].image
        /\ h[e].read.images[1].imageUrl # h[e].image.imageUrl

\* C35 (checked under SpecRead).  On a gallery that exists and holds no
\* image, random and pick (whatever the image number) answer "Gallery is
\* empty" and show no image and no index; remove_image answers with an error
\* text that carries no fields and no controls; none of them calls Set or
\* Delete.
C35_Case(e) ==
    /\ h[e].kind \in {"random", "pick", "remove_image"}
    /\ h[e].pc # "idle"
    /\ h[e].read.exists
    /\ Len(h[e].read.images) = 0

C35_Empty ==
    \A e \in EventIds :
        C35_Case(e)
        => /\ h[e].kind \in {"random", "pick"} => h[e].data = Text("GalleryEmpty")
           /\ h[e].kind = "remove_image" => h[e].data = Text("GalleryDoesNotExist")
           /\ h[e].data.num = -1 /\ h[e].data.url = ""
           /\ h[e].data.components = {} /\ h[e].data.fields = <<>>
           /\ h[e].wrote = 0 /\ h[e].pc \in {"respond", "done"}
           /\ h[e].pc = "done" => msg[e] = [posted |-> TRUE, data |-> h[e].data]

\* a pick of image 0 on an empty gallery has been answered "Gallery is empty"
C35_Witness ==
    \E e \in EventIds :
        /\ C35_Case(e)
        /\ Finished(e, "pick", "GalleryEmpty")
        /\ h[e].num = 0
        /\ store[h[e].g] = Doc(<<>>)
        /\ msg[e].posted /\ msg[e].data.components = {}

\* C36 (checked under SpecPrompt).  The controls of a message are keys of
\* componentHandlers: a gallery-delete prompt carries the two gallery
\* controls, an image-delete prompt the two image controls, any other message
\* none.  A component handler runs the function of the control clicked, and
\* that control is one of the prompt clicked.  So a handler started from a
\* gallery prompt writes only by deleting a document, and one started from
\* an image prompt only by writing a gallery one image shorter than it read.
C36_Controls(data) ==
    IF data.desc = "ConfirmGallery" THEN {"gallery_delete_yes", "gallery_delete_no"}
    ELSE IF data.desc = "ConfirmImage" THEN {"image_delete_yes", "image_delete_no"}
    ELSE {}

C36_Routing ==
    [][ /\ \A m \in MsgIds :
             msg'[m].posted => msg'[m].data.components = C36_Controls(msg'[m].data)
        /\ \A e \in EventIds :
             /\ ( h[e].pc = "idle" /\ h'[e].kind \in ConfirmIds \cup CancelIds )
                => /\ msg[h'[e].target].posted
                   /\ h'[e].kind \in C36_Controls(msg[h'[e].target].data)
             /\ ( h'[e].wrote = h[e].wrote + 1 /\ h[e].kind \in ConfirmIds )
                => LET g == h[e].g
                   IN  IF h[e].kind = "gallery_delete_yes"
                       THEN store' = [store EXCEPT ![g] = NoDoc]
                       ELSE /\ store' = [store EXCEPT ![g] = Doc(h[e].gallery)]
                            /\ Len(h[e].gallery) = Len(h[e].read.images) - 1 ]_vars

\* the confirm control of the prompt a delete subcommand displayed has run
\* deleteGallery: the gallery is gone and the prompt shows the result
C36_Witness ==
    \E p, d \in EventIds :
        /\ h[p].kind = "delete" /\ h[p].pc = "done"
        /\ Finished(d, "gallery_delete_yes", "GalleryDeleted")
        /\ h[d].target = p
        /\ h[d].wrote = 1
        /\ ~store[h[d].g].exists
        /\ msg[p] = [posted |-> TRUE, data |-> h[d].data]

====
